---- MODULE Spec2Model ----
(***************************************************************************)
(* A model of update-btc.py: the updater of bitcoind and lnd.  It fetches  *)
(* the latest release, verifies the signed checksum manifest and the      *)
(* archive digest, extracts the archive into a versioned directory,       *)
(* repoints the "current" link and restarts the daemon when asked to.     *)
(*                                                                         *)
(* Three specifications share the module:                                  *)
(*   Spec          the runs of main(): updateBtc and updateLnd, statement  *)
(*                 by statement, over a persistent installation tree;      *)
(*   SpecFetch     saveRemoteFile and verifyChecksum over file contents;   *)
(*   SpecManifest  getExpectedChecksum over checksum manifests.            *)
(***************************************************************************)
EXTENDS Integers, Sequences, FiniteSets, TLC

(***************************************************************************)
(* Bounds of the model.                                                    *)
(***************************************************************************)
\* longest file content (in bytes) the environment supplies
MaxLen == 2
\* longest checksum manifest (in lines) the environment supplies
MaxLines == 4
\* number of runs of the tool in one behaviour
MaxRuns == 1
\* largest number of processes carrying a daemon's name
MaxProcs == 2

(***************************************************************************)
(* Values.                                                                 *)
(***************************************************************************)
\* the byte alphabet of file contents
Bytes == {"x", "y"}

\* a missing file (os.path.isfile is false, open raises OSError)
NoFile == <<"nofile">>

RECURSIVE SeqsUpTo(_, _)
\* all sequences over S of length 0..n
SeqsUpTo(S, n) ==
    IF n = 0 THEN {<<>>}
    ELSE LET shorter == SeqsUpTo(S, n - 1)
         IN  shorter \cup {Append(s, b) : s \in {t \in shorter : Len(t) = n - 1}, b \in S}

\* the contents a local or a remote file can have
Contents == SeqsUpTo(Bytes, MaxLen)

(***************************************************************************)
(* SHA-256 digests.  hashlib is modelled as an ideal (injective) hash: the *)
(* hex digest of a content is tagged by the content; a manifest may spell  *)
(* the same digest in upper-case hex.                                      *)
(***************************************************************************)
\* the value None of a digest (getExpectedChecksum found no trusted digest)
NoDigest == [hex |-> <<"none">>, upper |-> FALSE]

\* hashlib.sha256(data).hexdigest(): lower-case hex
Sha256(content) == [hex |-> content, upper |-> FALSE]

\* str.lower() of a hex digest
Lower(digest) == [digest EXCEPT !.upper = FALSE]

\* checkSha256(filePath, sha256sum): open fails with OSError on a missing
\* file; otherwise the lower-cased digests are compared
checkSha256(file, sha256sum) ==
    /\ file /= NoFile
    /\ Lower(Sha256(file)) = Lower(sha256sum)

\* checkSha256 raises AttributeError (sha256sum.lower() of None) once the
\* file has been read; the exception is caught nowhere
checkSha256Raises(file, sha256sum) ==
    /\ file /= NoFile
    /\ sha256sum = NoDigest

(***************************************************************************)
(* saveRemoteFile (and getRemoteFileSize).                                  *)
(* net = [head, get]: whether the HEAD probe and the GET request succeed   *)
(* (URLError otherwise).  The result is the local file afterwards and      *)
(* whether log('', False) ended the process.                               *)
(***************************************************************************)
\* getRemoteFileSize(url): Content-Length of a HEAD request, -1 on URLError
getRemoteFileSize(remote, headOk) == IF headOk THEN Len(remote) ELSE -1

\* the size of the local file (os.stat(localPath).st_size)
currentSize(local) == Len(local)

\* the bytes the server answers: all of them, or from the Range offset on
Response(remote, from) ==
    IF from = 0 THEN remote ELSE SubSeq(remote, from + 1, Len(remote))

\* open(localPath, 'ab' if resume else 'wb') followed by copyfileobj
WriteOut(local, resume, response) ==
    IF resume /\ local /= NoFile THEN local \o response ELSE response

\* a log that reports a failure and carries on
LogNeverExits(value) == FALSE

\* log(desc, value) ends the process (sys.exit) exactly when value is False
LogExits(value) == value = FALSE

\* saveRemoteFile(url, localPath, resume)
saveRemoteFile(local, remote, resume, net) ==
    LET probing == resume /\ local /= NoFile
        rsize   == getRemoteFileSize(remote, net.head)
        ranged  == probing /\ currentSize(local) < rsize
        same    == probing /\ currentSize(local) = rsize
    IN  IF same THEN [file |-> local, exit |-> FALSE, fetched |-> FALSE]
        ELSE IF ~net.get
             THEN [file |-> local, exit |-> LogExits(FALSE), fetched |-> FALSE]
             ELSE [file |-> WriteOut(local, resume,
                                     Response(remote, IF ranged THEN currentSize(local) ELSE 0)),
                   exit |-> FALSE, fetched |-> TRUE]

\* verifyChecksum(checksum, filePath, url): the cached file, else one
\* saveRemoteFile(url, filePath, True) and a second checkSha256
verifyChecksum(checksum, local, remote, net) ==
    IF checkSha256Raises(local, checksum)
    THEN [ok |-> FALSE, file |-> local, exit |-> FALSE, raised |-> TRUE, fetched |-> FALSE]
    ELSE IF checkSha256(local, checksum)
    THEN [ok |-> TRUE, file |-> local, exit |-> FALSE, raised |-> FALSE, fetched |-> FALSE]
    ELSE LET s == saveRemoteFile(local, remote, TRUE, net)
         IN  [ok      |-> ~s.exit /\ checkSha256(s.file, checksum),
              file    |-> s.file,
              exit    |-> s.exit,
              raised  |-> ~s.exit /\ checkSha256Raises(s.file, checksum),
              fetched |-> s.fetched]

(***************************************************************************)
(* Checksum manifests and getExpectedChecksum.                             *)
(* A line is one of: the marker '-----BEGIN PGP SIGNED MESSAGE-----', the  *)
(* marker '-----BEGIN PGP SIGNATURE-----', a checksum entry, or other      *)
(* text.  An entry has a hex field (a digest and the number of hex digits),*)
(* a separator and a file name; the pattern                                *)
(*   ^([0-9a-fA-F]{64})[ ]+<fileName>$                                     *)
(* accepts it when it has 64 hex digits, blanks as separator and the name. *)
(***************************************************************************)
\* the archive's file name (data.tarPattern.format(version, arch)) and another
TarName == "tar"
OtherName == "other"
FileNames == {TarName, OtherName}

\* the digests a manifest line can carry: two digests, one of them also
\* spelt in upper case
LineDigests ==
    {Sha256(<<"x">>), Sha256(<<"y">>), [Sha256(<<"x">>) EXCEPT !.upper = TRUE]}

BeginLine == [kind |-> "begin", digest |-> NoDigest, hexlen |-> 0, sep |-> "", name |-> ""]
SigLine   == [kind |-> "sig",   digest |-> NoDigest, hexlen |-> 0, sep |-> "", name |-> ""]
TextLine  == [kind |-> "text",  digest |-> NoDigest, hexlen |-> 0, sep |-> "", name |-> ""]

\* a well-formed entry "<64 hex>  <name>"
Entry(digest, name) ==
    [kind |-> "entry", digest |-> digest, hexlen |-> 64, sep |-> " ", name |-> name]

\* the lines the environment writes into a manifest
Lines ==
    {BeginLine, SigLine, TextLine}
    \cup {Entry(d, n) : d \in LineDigests, n \in FileNames}
    \cup {[Entry(Sha256(<<"y">>), TarName) EXCEPT !.hexlen = 63],
          [Entry(Sha256(<<"y">>), TarName) EXCEPT !.sep = "*"]}

\* list.index(x): the first position of x (1-based), 0 for ValueError
IndexOf(lines, x) ==
    IF \E i \in 1..Len(lines) : lines[i] = x
    THEN CHOOSE i \in 1..Len(lines) :
             lines[i] = x /\ \A j \in 1..(i - 1) : lines[j] /= x
    ELSE 0

\* the lines kept: lines[(begin + 1):end] when both markers are found,
\* every line otherwise (ValueError: pass)
SignedPart(lines) ==
    LET begin == IndexOf(lines, BeginLine)
        end   == IndexOf(lines, SigLine)
    IN  IF begin = 0 \/ end = 0 THEN lines
        ELSE SubSeq(lines, begin + 1, end - 1)

\* p.match(line) is not None
Matches(line, fileName) ==
    /\ line.kind = "entry"
    /\ line.hexlen = 64
    /\ line.sep = " "
    /\ line.name = fileName

RECURSIVE Hashes(_, _)
\* [m.group(1) for m in map(p.match, lines) if m is not None]
Hashes(lines, fileName) ==
    IF lines = <<>> THEN <<>>
    ELSE IF Matches(Head(lines), fileName)
         THEN <<Head(lines).digest>> \o Hashes(Tail(lines), fileName)
         ELSE Hashes(Tail(lines), fileName)

\* the first matching hash, whether or not the others agree
PickFirst(hashes) == IF Len(hashes) > 0 THEN hashes[1] ELSE NoDigest

\* hashes[0] if there is one and all the others equal it, else None
AgreedHash(hashes) ==
    IF Len(hashes) > 0 /\ \A i \in 2..Len(hashes) : hashes[i] = hashes[1]
    THEN hashes[1]
    ELSE NoDigest

\* getExpectedChecksum(checksumFilePath, fileName)
getExpectedChecksum(lines, fileName) ==
    AgreedHash(Hashes(SignedPart(lines), fileName))

(***************************************************************************)
(* Versions, releases and the installation tree.                           *)
(* A version string is a record: its dotted numeric segments and its       *)
(* commit suffix ('' for bitcoind).  A directory of the installation tree  *)
(* is named after a release: the version for bitcoind, the tag for lnd.    *)
(***************************************************************************)
Families == {"btc", "lnd"}

\* BTC_DAEMON_BIN and LND_DAEMON_BIN
DaemonBin(d) == IF d = "btc" THEN "bitcoind" ELSE "lnd"

Ver(num, commit) == [num |-> num, commit |-> commit]

\* None where a version is expected, and the 'locked' of getRunningLnd
NoVersion == Ver(<<>>, "None")
Locked    == Ver(<<>>, "locked")
\* a --version output the pattern of getInstalledVersion does not match
Garbled   == Ver(<<>>, "garbled")
\* no 'current' link
NoLink    == Ver(<<>>, "nolink")

\* the bitcoind versions of the release index
BtcVersions == {Ver(<<0, 9, 0>>, ""), Ver(<<0, 21, 0>>, "")}

\* the lnd release tags (vMAJOR.MINOR[.PATCH]-COMMIT)
LndTags == {Ver(<<0, 9>>, "beta"), Ver(<<0, 21, 1>>, "beta")}

\* lndTagToVersion(tag): '.0' is added when the tag has no patch segment
lndTagToVersion(tag) ==
    Ver(IF Len(tag.num) - 1 > 1 THEN tag.num ELSE tag.num \o <<0>>, tag.commit)

Releases(d) == IF d = "btc" THEN BtcVersions ELSE LndTags

\* the version a release is expected to self-report
VersionOf(d, rel) == IF d = "btc" THEN rel ELSE lndTagToVersion(rel)

FamilyVersions(d) == {VersionOf(d, r) : r \in Releases(d)}

RECURSIVE ListLess(_, _)
\* Python's order of two lists of integers
ListLess(a, b) ==
    IF a = <<>> THEN b /= <<>>
    ELSE IF b = <<>> THEN FALSE
    ELSE IF Head(a) /= Head(b) THEN Head(a) < Head(b)
    ELSE ListLess(Tail(a), Tail(b))

\* a getLatestBtc that returns the highest listed version without the probe
getLatestBtcUnprobed(versions, exists) ==
    IF versions = {} THEN NoVersion
    ELSE CHOOSE v \in versions : \A w \in versions : ~ListLess(v.num, w.num)

\* getLatestBtc(): the first of the listed versions, sorted by their integer
\* segments in descending order, whose SHA256SUMS.asc answers a HEAD probe
getLatestBtc(versions, exists) ==
    LET found == {v \in versions : v \in exists}
    IN  IF found = {} THEN NoVersion
        ELSE CHOOSE v \in found : \A w \in found : ~ListLess(v.num, w.num)

\* a directory of the installation tree: absent, partly written, or fully
\* extracted with the versions its daemon and client binaries self-report
AbsentDir  == [kind |-> "absent",  daemon |-> NoVersion, client |-> NoVersion]
PartialDir == [kind |-> "partial", daemon |-> NoVersion, client |-> NoVersion]
FullDir(daemon, client) == [kind |-> "full", daemon |-> daemon, client |-> client]

\* what an archive can extract to: binaries that report a version of the
\* family (for bitcoind the client may disagree with the daemon), or a
\* daemon whose --version output does not parse
ArchiveDirs(d) ==
    IF d = "btc"
    THEN {FullDir(v, c) : v \in BtcVersions \cup {Garbled}, c \in BtcVersions}
    ELSE {FullDir(v, NoVersion) : v \in FamilyVersions("lnd") \cup {Garbled}}

\* the outcomes of getInstalledVersion on a binary of directory dir:
\* a version, None (FileNotFoundError), or "exit" (sys.exit on an error or
\* a parse failure; an OSError of a truncated binary is caught nowhere)
Outcome(kind, value) == [kind |-> kind, value |-> value]

getInstalledVersion(dir, report) ==
    CASE dir.kind = "absent"  -> {Outcome("value", NoVersion)}
      [] dir.kind = "partial" -> {Outcome("value", NoVersion), Outcome("exit", NoVersion)}
      [] OTHER                -> IF report = Garbled
                                 THEN {Outcome("exit", NoVersion)}
                                 ELSE {Outcome("value", report)}

(***************************************************************************)
(* The signed manifest in the cache and on the server, and gpg.            *)
(***************************************************************************)
\* a manifest or signature file: the lines it holds (a detached signature:
\* the lines it signs) and who signed it
ManifestFile(lines, signedBy) == [lines |-> lines, signedBy |-> signedBy]
NoManifestFile == ManifestFile(<<>>, "nofile")

GoodManifest == <<BeginLine, Entry(Sha256(<<"x">>), TarName), SigLine>>
DupManifest  == <<BeginLine, Entry(Sha256(<<"x">>), TarName),
                  Entry(Sha256(<<"y">>), TarName), SigLine>>
\* the manifests the server or the cache can hold
ManifestSamples == {GoodManifest, DupManifest}

\* signature files (for bitcoind the clearsigned manifest itself)
SigFiles == {ManifestFile(m, s) : m \in ManifestSamples, s \in {"trusted", "other"}}
\* manifest files of lnd, signed by the detached signature
DataFiles == {ManifestFile(m, "unsigned") : m \in ManifestSamples}

\* verifyGPG(sigPath, dataPath): gpg --verify of a clearsigned file (the two
\* paths are the same) or of a detached signature and its data
verifyGPG(d, haveKey, sig, data) ==
    /\ haveKey
    /\ sig /= NoManifestFile
    /\ sig.signedBy = "trusted"
    /\ d = "lnd" => (data /= NoManifestFile /\ sig.lines = data.lines)

\* the manifest getExpectedChecksum reads (sigData)
SigData(d, sig, data) == IF d = "btc" THEN sig ELSE data

\* a retrievePublicKey that asks the key server whatever --fetch-keys got
retrievePublicKeyBoth(haveKey, fromUrl, fromServer) ==
    IF haveKey THEN [key |-> TRUE, exit |-> FALSE, ops |-> <<"haveKey">>]
    ELSE [key |-> fromUrl \/ fromServer, exit |-> ~(fromUrl \/ fromServer),
          ops |-> <<"noKey", "fetch-keys", IF fromUrl THEN "haveKey" ELSE "noKey",
                    "recv-keys", IF fromUrl \/ fromServer THEN "haveKey" ELSE "noKey">>]

\* retrievePublicKey(keyId, keyUrl): the key is there; or --fetch-keys gets
\* it; or --recv-keys gets it; or log('', haveKey(keyId)) ends the process.
\* ops: the gpg calls in order ("haveKey" / "noKey" is a haveKey(keyId)
\* call and its answer)
retrievePublicKey(haveKey, fromUrl, fromServer) ==
    IF haveKey THEN [key |-> TRUE, exit |-> FALSE, ops |-> <<"haveKey">>]
    ELSE IF fromUrl
    THEN [key |-> TRUE, exit |-> FALSE, ops |-> <<"noKey", "fetch-keys", "haveKey">>]
    ELSE [key |-> fromServer, exit |-> LogExits(fromServer),
          ops |-> <<"noKey", "fetch-keys", "noKey", "recv-keys",
                    IF fromServer THEN "haveKey" ELSE "noKey">>]

(***************************************************************************)
(* State.                                                                  *)
(***************************************************************************)
VARIABLES
    \* the installation tree (it outlives the runs)
    link,         \* per family: the release 'current' points to, or NoLink
    dirs,         \* per family and release: the versioned directory
    \* main()
    runs,         \* runs of the tool started so far
    args,         \* the parsed command line: b, l, s, r
    pc,           \* the statement the run is at
    family,       \* the daemon updateBtc / updateLnd is working on
    table,        \* the names of the rows appended to the status table
    row,          \* the tuple the last update returned
    exitReason,   \* the function the process ended early in ("" if it did not)
    exitCode,     \* the exit status of a process that ended early
    \* locals of updateBtc / updateLnd
    installedVer,
    latestVer,
    latestRel,    \* latestVer (bitcoind) or latestTag (lnd)
    fileName,     \* the result of getValidatedArchive
    checksum,     \* the result of getExpectedChecksum
    running,      \* the result of getRunningBtc / getRunningLnd
    \* the cache (TARS_PATH) and the gpg keyring
    key,          \* haveKey(data.keyId)
    sigF,         \* the signature file (sig)
    dataF,        \* the manifest file (sigData) of lnd
    tarF,         \* the archive file
    \* the process table and the daemon's RPC interface
    procs,        \* number of processes whose comm is the daemon's name
    rpc,          \* "ok": the client's query answers; "err": it fails
    runVer,       \* the version the running daemon reports
    \* history of the current update
    link0,        \* link[family] when the update began
    extracted,    \* installTar returned True
    rechecked,    \* the version check of the extracted binaries passed
    synced,       \* os.sync() was called after the last extraction
    validated,    \* the signature and the digest were good when the archive was accepted
    toolOps,      \* daemon control issued: "stop", "kill", "launch"
    selfTest,     \* test_bitcoin: whether it is there, was run, and its exit status
    gvaOps,       \* getValidatedArchive: the gpg calls and downloads made, in order
                  \* (kept in SpecArchive only; NoTrace elsewhere)
    launch,       \* the last start of a daemon: what came up and what was logged
    \* the two function-level specifications
    fetchSt,      \* SpecFetch: inputs and result of saveRemoteFile
    manifestSt,   \* SpecManifest: input and result of getExpectedChecksum
    indexSt       \* SpecLatest: input and result of getLatestBtc

treeVars  == <<link, dirs>>
mainVars  == <<runs, args, family, table, row>>
localVars == <<installedVer, latestVer, latestRel, fileName, checksum, running>>
cacheVars == <<key, sigF, dataF, tarF>>
procVars  == <<procs, rpc, runVer>>
histVars  == <<link0, extracted, rechecked, synced, validated, toolOps, selfTest, gvaOps, launch>>
unitVars  == <<fetchSt, manifestSt, indexSt>>
exitVars  == <<exitReason, exitCode>>
vars == <<treeVars, mainVars, pc, exitVars, localVars, cacheVars, procVars,
          histVars, unitVars>>

\* the command lines argparse accepts (-b and -l exclude each other)
Args == {a \in [b : BOOLEAN, l : BOOLEAN, s : BOOLEAN, r : BOOLEAN] : ~(a.b /\ a.l)}

NoArgs == [b |-> FALSE, l |-> FALSE, s |-> FALSE, r |-> FALSE]
NoRow == <<"", NoVersion, NoVersion, NoVersion>>

\* the fetch and manifest experiments are not part of a run
IdleFetch ==
    [stage |-> "off", local |-> NoFile, remote |-> <<>>, resume |-> FALSE,
     net |-> [head |-> TRUE, get |-> TRUE], checksum |-> NoDigest,
     file |-> NoFile, exit |-> FALSE, ok |-> FALSE, raised |-> FALSE]
IdleManifest == [stage |-> "off", lines |-> <<>>, result |-> NoDigest]
IdleIndex == [stage |-> "off", versions |-> {}, exists |-> {}, result |-> NoVersion]

\* the calls of getValidatedArchive are not recorded
NoTrace == <<"off">>

\* the record of calls h with the calls ops added, and h emptied
Record(h, ops) == IF h = NoTrace THEN h ELSE h \o ops
Reset(h) == IF h = NoTrace THEN h ELSE <<>>

\* test_bitcoin has not been looked for
NoSelfTest == [present |-> FALSE, ran |-> FALSE, returncode |-> 0]

\* no daemon has been started
NoLaunch == [daemon |-> "", comm |-> "", returncode |-> 0, logged |-> ""]

ClearLocals ==
    /\ installedVer' = NoVersion
    /\ latestVer' = NoVersion
    /\ latestRel' = NoVersion
    /\ fileName' = "unset"
    /\ checksum' = NoDigest
    /\ running' = NoVersion

ClearCache ==
    /\ key' = FALSE
    /\ sigF' = NoManifestFile
    /\ dataF' = NoManifestFile
    /\ tarF' = NoFile

ClearProcs ==
    /\ procs' = 0
    /\ rpc' = "err"
    /\ runVer' = NoVersion

\* a release as a successful update leaves it: extracted, and reporting
\* the version it is named after
GoodDir(d, rel) ==
    FullDir(VersionOf(d, rel), IF d = "btc" THEN VersionOf(d, rel) ELSE NoVersion)

\* the installation of one family before the first run of a behaviour:
\* nothing, or one release installed by an earlier successful update
InstalledTree(d, rel) ==
    [r \in Releases(d) |-> IF r = rel THEN GoodDir(d, rel) ELSE AbsentDir]

\* no run has started; each family is not installed or properly installed
MainInit ==
    /\ link \in [Families -> BtcVersions \cup LndTags \cup {NoLink}]
    /\ \A d \in Families : link[d] \in Releases(d) \cup {NoLink}
    /\ dirs = [d \in Families |-> InstalledTree(d, link[d])]
    /\ runs = 0
    /\ args = NoArgs
    /\ pc = "idle"
    /\ family = "none"
    /\ table = <<>>
    /\ row = NoRow
    /\ exitReason = ""
    /\ exitCode = 0
    /\ installedVer = NoVersion
    /\ latestVer = NoVersion
    /\ latestRel = NoVersion
    /\ fileName = "unset"
    /\ checksum = NoDigest
    /\ running = NoVersion
    /\ key = FALSE
    /\ sigF = NoManifestFile
    /\ dataF = NoManifestFile
    /\ tarF = NoFile
    /\ procs = 0
    /\ rpc = "err"
    /\ runVer = NoVersion
    /\ link0 = NoLink
    /\ extracted = FALSE
    /\ rechecked = FALSE
    /\ synced = FALSE
    /\ validated = FALSE
    /\ toolOps = {}
    /\ selfTest = NoSelfTest
    /\ gvaOps = NoTrace
    /\ launch = NoLaunch

Init ==
    /\ MainInit
    /\ fetchSt = IdleFetch
    /\ manifestSt = IdleManifest
    /\ indexSt = IdleIndex

\* the install step of the update is over (or there was none)
ClearHist ==
    /\ link0' = NoLink
    /\ extracted' = FALSE
    /\ rechecked' = FALSE
    /\ synced' = FALSE
    /\ validated' = FALSE
    /\ selfTest' = NoSelfTest
    /\ gvaOps' = Reset(gvaOps)

\* a hard error that ends the update of one daemon only: the update returns
\* and main() goes on
ExitOfUpdateOnly(reason, code) ==
    /\ pc' = "report"
    /\ exitReason' = reason
    /\ exitCode' = code
    /\ ClearLocals
    /\ ClearCache
    /\ ClearProcs

\* sys.exit(message) and an exception nothing catches end the process with
\* status 1, sys.exit(n) with status n
Exit(reason, code) ==
    /\ pc' = "exit"
    /\ exitReason' = reason
    /\ exitCode' = code
    /\ ClearLocals
    /\ ClearCache
    /\ ClearProcs

\* the directory the 'current' link of family d resolves to
CurrentDir(d) == IF link[d] = NoLink THEN AbsentDir ELSE dirs[d][link[d]]

\* instDir: the directory of the release being installed
InstDir == dirs[family][latestRel]

(***************************************************************************)
(* main() and the head of updateBtc / updateLnd.                           *)
(***************************************************************************)
\* main(): parse the arguments, start with bitcoind unless -l was given
StartRun ==
    /\ pc \in {"idle", "done", "exit"}
    /\ runs < MaxRuns
    /\ \E a \in Args :
        /\ args' = a
        /\ family' = IF a.l THEN "lnd" ELSE "btc"
    /\ runs' = runs + 1
    /\ table' = <<>>
    /\ row' = NoRow
    /\ pc' = "begin"
    /\ exitReason' = ""
    /\ exitCode' = 0
    /\ ClearLocals
    /\ ClearCache
    /\ ClearProcs
    /\ ClearHist
    /\ toolOps' = {}
    /\ launch' = NoLaunch
    /\ UNCHANGED <<treeVars, unitVars>>

\* updateBtc / updateLnd is entered
BeginUpdate ==
    /\ pc = "begin"
    /\ pc' = IF family = "btc" THEN "installed" ELSE "latest"
    /\ link0' = link[family]
    /\ extracted' = FALSE
    /\ rechecked' = FALSE
    /\ synced' = FALSE
    /\ validated' = FALSE
    /\ toolOps' = {}
    /\ selfTest' = NoSelfTest
    /\ gvaOps' = Reset(gvaOps)
    /\ launch' = NoLaunch
    /\ UNCHANGED <<treeVars, mainVars, exitVars, localVars, cacheVars, procVars, unitVars>>

\* installedVer = getInstalled...DaemonVersion(installLink)
QueryInstalled ==
    /\ pc = "installed"
    /\ \E o \in getInstalledVersion(CurrentDir(family), CurrentDir(family).daemon) :
        \/ /\ o.kind = "value"
           /\ installedVer' = o.value
           /\ pc' = IF family = "btc" THEN "latest" ELSE "compare"
           /\ UNCHANGED <<exitVars, latestVer, latestRel, fileName, checksum, running,
                          cacheVars, procVars>>
        \/ /\ o.kind = "exit"
           /\ Exit("getInstalledVersion", 1)
    /\ UNCHANGED <<treeVars, mainVars, histVars, unitVars>>

\* latestVer = getLatestBtc(), or latestTag = getLatestLndTag() and
\* latestVer = lndTagToVersion(latestTag); URLError is a sys.exit
ResolveLatest ==
    /\ pc = "latest"
    /\ \/ /\ family = "btc"
          /\ \E versions \in SUBSET BtcVersions : \E exists \in SUBSET versions :
                /\ latestVer' = getLatestBtc(versions, exists)
                /\ latestRel' = getLatestBtc(versions, exists)
          /\ pc' = "compare"
          /\ UNCHANGED <<exitVars, installedVer, fileName, checksum, running,
                         cacheVars, procVars>>
       \/ /\ family = "lnd"
          /\ \E tag \in LndTags :
                /\ latestRel' = tag
                /\ latestVer' = lndTagToVersion(tag)
          /\ pc' = "installed"
          /\ UNCHANGED <<exitVars, installedVer, fileName, checksum, running,
                         cacheVars, procVars>>
       \/ Exit("getLatest", 1)
    /\ UNCHANGED <<treeVars, mainVars, histVars, unitVars>>

\* if installedVer != latestVer: ... (getValidatedArchive(None, ...) raises
\* TypeError at '-' + version when the index lists no usable version)
Compare ==
    /\ pc = "compare"
    /\ \/ /\ installedVer = latestVer
          /\ pc' = "procs"
          /\ UNCHANGED <<exitVars, localVars, cacheVars, procVars>>
       \/ /\ installedVer /= latestVer
          /\ latestVer /= NoVersion
          /\ pc' = "gva_verify"
          /\ UNCHANGED <<exitVars, localVars, cacheVars, procVars>>
       \/ /\ installedVer /= latestVer
          /\ latestVer = NoVersion
          /\ Exit("TypeError", 1)
    /\ UNCHANGED <<treeVars, mainVars, histVars, unitVars>>

(***************************************************************************)
(* getValidatedArchive(version, arch, data).                               *)
(***************************************************************************)
\* the cache as the run finds it: no file, or the files of an earlier run
CachedSigFiles ==
    {ManifestFile(GoodManifest, s) : s \in {"trusted", "other"}} \cup {NoManifestFile}
CachedDataFiles(d) ==
    IF d = "btc" THEN {NoManifestFile}
    ELSE {ManifestFile(GoodManifest, "unsigned"), NoManifestFile}
\* the archive the manifests name (its digest is GoodManifest's), one of the
\* same size, a shorter and a longer one
TarSamples == {<<"x">>, <<"y">>, <<>>, <<"x", "y">>}
CachedTarFiles == TarSamples \cup {NoFile}
\* the outcomes of the HEAD probe and of the GET request
Nets == [head : BOOLEAN, get : BOOLEAN]

\* if not verifyGPG(sig, sigData): the first verification, of the cached files
VerifyCached ==
    /\ pc = "gva_verify"
    /\ \E k \in BOOLEAN, sg \in CachedSigFiles, dt \in CachedDataFiles(family) :
        /\ key' = k
        /\ sigF' = sg
        /\ dataF' = dt
        /\ pc' = IF verifyGPG(family, k, sg, dt) THEN "gva_checksum" ELSE "gva_key"
        /\ gvaOps' = Record(Reset(gvaOps), <<IF verifyGPG(family, k, sg, dt)
                                               THEN "verify-ok" ELSE "verify-bad">>)
    /\ UNCHANGED <<treeVars, mainVars, exitVars, localVars, tarF, procVars,
                   link0, extracted, rechecked, synced, validated, toolOps,
                   selfTest, launch, unitVars>>

\* retrievePublicKey(data.keyId, data.keyUrl)
RetrieveKey ==
    /\ pc = "gva_key"
    /\ \E fromUrl \in BOOLEAN, fromServer \in BOOLEAN :
        LET k == retrievePublicKey(key, fromUrl, fromServer)
        IN  /\ gvaOps' = Record(gvaOps, k.ops)
            /\ IF k.exit
               THEN Exit("retrievePublicKey", 1)
               ELSE /\ key' = k.key
                    /\ pc' = "gva_dl_sig"
                    /\ UNCHANGED <<exitVars, localVars, sigF, dataF, tarF, procVars>>
    /\ UNCHANGED <<treeVars, mainVars, link0, extracted, rechecked, synced, validated, toolOps,
                   selfTest, launch, unitVars>>

\* saveRemoteFile(rootUrl + checksumFile + postfix, sig, False)
DownloadSig ==
    /\ pc = "gva_dl_sig"
    /\ \E remote \in SigFiles, net \in Nets :
        LET s == saveRemoteFile(sigF, remote, FALSE, net)
        IN  IF s.exit
            THEN Exit("saveRemoteFile", 1)
            ELSE /\ sigF' = s.file
                 /\ pc' = IF family = "lnd" THEN "gva_dl_data" ELSE "gva_verify2"
                 /\ UNCHANGED <<exitVars, localVars, key, dataF, tarF, procVars>>
    /\ gvaOps' = Record(gvaOps, <<"save-sig">>)
    /\ UNCHANGED <<treeVars, mainVars, link0, extracted, rechecked, synced, validated, toolOps,
                   selfTest, launch, unitVars>>

\* if postfix: saveRemoteFile(rootUrl + checksumFile, sigData, False)
DownloadData ==
    /\ pc = "gva_dl_data"
    /\ \E remote \in DataFiles, net \in Nets :
        LET s == saveRemoteFile(dataF, remote, FALSE, net)
        IN  IF s.exit
            THEN Exit("saveRemoteFile", 1)
            ELSE /\ dataF' = s.file
                 /\ pc' = "gva_verify2"
                 /\ UNCHANGED <<exitVars, localVars, key, sigF, tarF, procVars>>
    /\ gvaOps' = Record(gvaOps, <<"save-data">>)
    /\ UNCHANGED <<treeVars, mainVars, link0, extracted, rechecked, synced, validated, toolOps,
                   selfTest, launch, unitVars>>

\* the value getValidatedArchive returns when the second verifyGPG fails
ResultUnverified == "None"

\* if not verifyGPG(sig, sigData): return None   (the retry)
VerifyAgain ==
    /\ pc = "gva_verify2"
    /\ IF verifyGPG(family, key, sigF, dataF)
       THEN /\ pc' = "gva_checksum"
            /\ UNCHANGED fileName
       ELSE /\ pc' = "log_sig"
            /\ fileName' = ResultUnverified
    /\ gvaOps' = Record(gvaOps, <<IF verifyGPG(family, key, sigF, dataF)
                                  THEN "verify-ok" ELSE "verify-bad">>)
    /\ UNCHANGED <<treeVars, mainVars, exitVars, installedVer, latestVer, latestRel,
                   checksum, running, cacheVars, procVars,
                   link0, extracted, rechecked, synced, validated, toolOps,
                   selfTest, launch, unitVars>>

\* a getValidatedArchive that returns the path whatever verifyChecksum says
ResultOfChecksumIgnored(ok) == "path"

\* the value getValidatedArchive returns after verifyChecksum
ResultOfChecksum(ok) == IF ok THEN "path" ELSE "None"

\* checksum = getExpectedChecksum(sigData, fileName), then
\* verifyChecksum(checksum, TARS_PATH + fileName, rootUrl + fileName)
ValidateArchive ==
    /\ pc = "gva_checksum"
    /\ \E local \in CachedTarFiles, remote \in TarSamples, net \in Nets :
        LET sum == getExpectedChecksum(SigData(family, sigF, dataF).lines, TarName)
            v   == verifyChecksum(sum, local, remote, net)
        IN  \/ /\ v.raised
               /\ Exit("AttributeError", 1)
               /\ UNCHANGED gvaOps
            \/ /\ v.exit
               /\ Exit("saveRemoteFile", 1)
               /\ UNCHANGED gvaOps
            \/ /\ ~v.raised /\ ~v.exit
               /\ checksum' = sum
               /\ tarF' = v.file
               /\ fileName' = ResultOfChecksum(v.ok)
               /\ gvaOps' = Record(gvaOps, <<IF v.ok THEN "digest-ok" ELSE "digest-bad">>)
               /\ pc' = "log_sig"
               /\ UNCHANGED <<exitVars, installedVer, latestVer, latestRel, running,
                              key, sigF, dataF, procVars>>
    /\ UNCHANGED <<treeVars, mainVars, link0, extracted, rechecked, synced, validated, toolOps,
                   selfTest, launch, unitVars>>

(***************************************************************************)
(* The install step of updateBtc / updateLnd.                              *)
(***************************************************************************)
\* log('Signature of ' + latestVer, fileName is not None)
LogSignature ==
    /\ pc = "log_sig"
    /\ IF LogExits(fileName /= "None")
       THEN Exit("log signature", 1)
       ELSE /\ pc' = "install"
            /\ ClearCache
            /\ checksum' = NoDigest
            /\ UNCHANGED <<exitVars, installedVer, latestVer, latestRel, fileName,
                           running, procVars>>
    /\ validated' = (verifyGPG(family, key, sigF, dataF) /\ checkSha256(tarF, checksum))
    /\ UNCHANGED <<treeVars, mainVars, link0, extracted, rechecked, synced, toolOps,
                   selfTest, gvaOps, launch, unitVars>>

\* what installTar leaves of instDir when it returns False: nothing (the
\* old directory is removed, the new one is not there) or a part of the files
FailedDirs(old) == {AbsentDir, PartialDir}

\* log('', installTar(fileName, instDir)): instDir is removed if it exists,
\* created and filled from the archive
InstallTar ==
    /\ pc = "install"
    /\ \E ok \in BOOLEAN :
        \E new \in (IF ok THEN ArchiveDirs(family) ELSE FailedDirs(InstDir)) :
            /\ dirs' = [dirs EXCEPT ![family][latestRel] = new]
            /\ extracted' = ok
            /\ synced' = FALSE
            /\ IF LogExits(ok)
               THEN Exit("installTar", 1)
               ELSE /\ pc' = IF family = "btc" THEN "tests" ELSE "recheck"
                    /\ UNCHANGED <<exitVars, localVars, cacheVars, procVars>>
    /\ UNCHANGED <<link, mainVars, link0, rechecked, toolOps, validated,
                   selfTest, gvaOps, launch, unitVars>>

\* a failed self-test reported with the general failure status
TestExitStatusOne(returncode) == 1

\* sys.exit(p.returncode): the status of the run is that of test_bitcoin
TestExitStatus(returncode) == returncode

\* the exit statuses of test_bitcoin
TestCodes == {0, 1, 2}

\* if runTests and os.path.isfile(testBinPath): run it, sys.exit(returncode)
\* if that is not 0
RunTests ==
    /\ pc = "tests"
    /\ \E present \in BOOLEAN, returncode \in TestCodes :
        LET ran == ~args.s /\ present
        IN  /\ selfTest' = [present |-> present, ran |-> ran,
                            returncode |-> IF ran THEN returncode ELSE 0]
            /\ IF ran /\ returncode /= 0
               THEN Exit("test_bitcoin", TestExitStatus(returncode))
               ELSE /\ pc' = "recheck"
                    /\ UNCHANGED <<exitVars, localVars, cacheVars, procVars>>
    /\ UNCHANGED <<treeVars, mainVars, link0, extracted, rechecked, synced, validated,
                   toolOps, gvaOps, launch, unitVars>>

\* updateBtc: latestVer == getInstalledBtcDaemonVersion(instDir)
\*                      == getInstalledBtcClientVersion(instDir)
btcVersionConfirmed(latest, daemon, client) == latest = daemon /\ daemon = client

\* updateLnd: latestVer != getInstalledLndDaemonVersion(installLink)
lndVersionConfirmed(latest, viaLink) == latest /= viaLink

\* the version check after the extraction
Recheck ==
    /\ pc = "recheck"
    /\ \/ /\ family = "btc"
          /\ \E dv \in getInstalledVersion(InstDir, InstDir.daemon),
                cv \in getInstalledVersion(InstDir, InstDir.client) :
                IF dv.kind = "exit" \/ (latestVer = dv.value /\ cv.kind = "exit")
                THEN /\ Exit("getInstalledVersion", 1)
                     /\ UNCHANGED rechecked
                ELSE IF btcVersionConfirmed(latestVer, dv.value, cv.value)
                THEN /\ pc' = "sync"
                     /\ rechecked' = TRUE
                     /\ UNCHANGED <<exitVars, localVars, cacheVars, procVars>>
                ELSE /\ Exit("version mismatch", 1)
                     /\ UNCHANGED rechecked
       \/ /\ family = "lnd"
          /\ \E lv \in getInstalledVersion(CurrentDir(family), CurrentDir(family).daemon) :
                IF lv.kind = "exit"
                THEN /\ Exit("getInstalledVersion", 1)
                     /\ UNCHANGED rechecked
                ELSE IF lndVersionConfirmed(latestVer, lv.value)
                THEN /\ pc' = "sync"
                     /\ rechecked' = TRUE
                     /\ UNCHANGED <<exitVars, localVars, cacheVars, procVars>>
                ELSE /\ pc' = "procs"
                     /\ UNCHANGED <<rechecked, exitVars, localVars, cacheVars, procVars>>
    /\ UNCHANGED <<treeVars, mainVars, link0, extracted, synced, validated, toolOps,
                   selfTest, gvaOps, launch, unitVars>>

\* os.sync() left out
OsSyncSkipped ==
    /\ pc = "sync"
    /\ pc' = "mklink"
    /\ UNCHANGED <<treeVars, mainVars, exitVars, localVars, cacheVars, procVars,
                   histVars, unitVars>>

\* os.sync(): make sure all newly installed files are synced before switching
OsSync ==
    /\ pc = "sync"
    /\ synced' = TRUE
    /\ pc' = "mklink"
    /\ UNCHANGED <<treeVars, mainVars, exitVars, localVars, cacheVars, procVars,
                   link0, extracted, rechecked, validated, toolOps,
                   selfTest, gvaOps, launch, unitVars>>

\* makeLink(dirName, installLink): nothing to do when the link is dirName
\* already; else os.remove(dest) when there is a link, os.symlink(src, dest)
\* at once when there is none
MakeLink ==
    /\ pc = "mklink"
    /\ IF link[family] = latestRel
       THEN /\ pc' = "binlinks"
            /\ UNCHANGED link
       ELSE IF link[family] /= NoLink
       THEN /\ link' = [link EXCEPT ![family] = NoLink]
            /\ pc' = "symlink"
       ELSE /\ link' = [link EXCEPT ![family] = latestRel]
            /\ pc' = "binlinks"
    /\ UNCHANGED <<dirs, mainVars, exitVars, localVars, cacheVars, procVars, histVars, unitVars>>

\* makeLink(dirName, installLink): os.symlink(src, dest) after os.remove(dest)
MakeLinkSymlink ==
    /\ pc = "symlink"
    /\ link' = [link EXCEPT ![family] = latestRel]
    /\ pc' = "binlinks"
    /\ UNCHANGED <<dirs, mainVars, exitVars, localVars, cacheVars, procVars, histVars, unitVars>>

\* createBtcLinks(arch) / createLndLinks(), then installedVer = latestVer
CreateLinks ==
    /\ pc = "binlinks"
    /\ installedVer' = latestVer
    /\ pc' = "procs"
    /\ UNCHANGED <<treeVars, mainVars, exitVars, latestVer, latestRel, fileName, checksum,
                   running, cacheVars, procVars, histVars, unitVars>>

(***************************************************************************)
(* The running daemon: getRunningBtc, getRunningLnd, stopDaemon,           *)
(* restartBtc, restartLnd.                                                 *)
(***************************************************************************)
\* the process table and the RPC interface as the update finds them
ObserveProcs ==
    /\ pc = "procs"
    /\ \E n \in 0..MaxProcs, r \in {"ok", "err"}, v \in FamilyVersions(family) :
        /\ n = 0 => (r = "err" /\ v = VersionOf(family, latestRel))
        /\ procs' = n
        /\ rpc' = r
        /\ runVer' = IF n = 0 THEN NoVersion ELSE v
    /\ pc' = "restart_check"
    /\ ClearHist
    /\ UNCHANGED <<treeVars, mainVars, exitVars, localVars, cacheVars, toolOps, launch, unitVars>>

\* a getRunningBtc that asks bitcoin-cli until it answers, processes or not
getRunningBtcPolling(n, r, v) ==
    IF r = "ok" THEN Outcome("value", v) ELSE Outcome("wait", NoVersion)

\* getRunningBtc(): while the daemon has processes, ask bitcoin-cli; None
\* when it has none; "wait" stands for time.sleep(RETRY_SECS) and a retry
getRunningBtc(n, r, v) ==
    IF n = 0 THEN Outcome("value", NoVersion)
    ELSE IF r = "ok" THEN Outcome("value", v)
    ELSE Outcome("wait", NoVersion)

\* a getRunningLnd that takes every failure of lncli for 'not running'
getRunningLndNoLocked(n, r, v) ==
    IF r = "ok" THEN Outcome("value", v) ELSE Outcome("value", NoVersion)

\* getRunningLnd(): the version lncli reports, else 'locked' when lnd has a
\* process, else None
getRunningLnd(n, r, v) ==
    IF r = "ok" THEN Outcome("value", v)
    ELSE IF n > 0 THEN Outcome("value", Locked)
    ELSE Outcome("value", NoVersion)

getRunning(d, n, r, v) ==
    IF d = "btc" THEN getRunningBtc(n, r, v) ELSE getRunningLnd(n, r, v)

\* a restart whenever the versions differ, asked for or not
restartNeededUnasked(restart, runningVer, installed) == runningVer /= installed

\* if restart and getRunning...() != installedVer
restartNeeded(restart, runningVer, installed) ==
    restart /\ runningVer /= installed

\* if restart and getRunningBtc() != installedVer: restartBtc()   (and lnd)
RestartCheck ==
    /\ pc = "restart_check"
    /\ LET o == getRunning(family, procs, rpc, runVer)
       IN  \/ /\ ~args.r
              /\ o.kind = "value"
              /\ pc' = IF restartNeeded(args.r, o.value, installedVer)
                       THEN "stop" ELSE "report"
              /\ UNCHANGED running
           \/ /\ ~args.r
              /\ o.kind = "wait"
              /\ pc' = "report"
              /\ UNCHANGED running
           \/ /\ args.r
              /\ o.kind = "wait"
              /\ pc' = "restart_sleep"
              /\ UNCHANGED running
           \/ /\ args.r
              /\ o.kind = "value"
              /\ running' = o.value
              /\ pc' = IF restartNeeded(args.r, o.value, installedVer)
                       THEN "stop" ELSE "report"
    /\ UNCHANGED <<treeVars, mainVars, exitVars, installedVer, latestVer, latestRel,
                   fileName, checksum, cacheVars, procVars, histVars, unitVars>>

\* time.sleep(RETRY_SECS) in getRunningBtc, then the next round of its loop
Sleep ==
    /\ pc \in {"restart_sleep", "report_sleep"}
    /\ pc' = IF pc = "restart_sleep" THEN "restart_check" ELSE "report"
    /\ UNCHANGED <<treeVars, mainVars, exitVars, localVars, cacheVars, procVars,
                   histVars, unitVars>>

\* the daemon, while the tool sleeps: its RPC interface comes up
DaemonReady ==
    /\ pc \in {"restart_sleep", "report_sleep"}
    /\ procs > 0
    /\ rpc = "err"
    /\ rpc' = "ok"
    /\ UNCHANGED <<treeVars, mainVars, pc, exitVars, localVars, cacheVars, procs, runVer,
                   histVars, unitVars>>

\* the daemon, while the tool sleeps: one of its processes ends
DaemonExits ==
    /\ pc \in {"restart_sleep", "report_sleep", "stop_wait"}
    /\ procs > 0
    /\ procs' = procs - 1
    /\ rpc' = IF procs = 1 THEN "err" ELSE rpc
    /\ runVer' = IF procs = 1 THEN NoVersion ELSE runVer
    /\ UNCHANGED <<treeVars, mainVars, pc, exitVars, localVars, cacheVars, histVars, unitVars>>

\* stopDaemon: '<client> stop', and SIGTERM to every process of the daemon's
\* name if that fails
StopDaemon ==
    /\ pc = "stop"
    /\ toolOps' = toolOps \cup {"stop"}
                  \cup (IF rpc /= "ok" /\ procs > 0 THEN {"kill"} ELSE {})
    /\ pc' = "stop_wait"
    /\ UNCHANGED <<treeVars, mainVars, exitVars, localVars, cacheVars, procVars,
                   link0, extracted, rechecked, synced, validated,
                   selfTest, gvaOps, launch, unitVars>>

\* a stopDaemon that returns without waiting for the processes to end
StopWaitImpatient ==
    /\ pc = "stop_wait"
    /\ pc' = "start"
    /\ UNCHANGED <<treeVars, mainVars, exitVars, localVars, cacheVars, procVars,
                   histVars, unitVars>>

\* stopDaemon: while getPids(daemon): time.sleep(RETRY_SECS)
StopWaitDone ==
    /\ pc = "stop_wait"
    /\ procs = 0
    /\ pc' = "start"
    /\ UNCHANGED <<treeVars, mainVars, exitVars, localVars, cacheVars, procVars,
                   histVars, unitVars>>

\* the return codes of the launch command: 'bitcoind -daemon' is waited for,
\* lnd is started in the background (no return code is read)
StartCodes(d) == IF d = "btc" THEN {0, 1} ELSE {0}

\* the command name found for the started process just after the launch:
\* the daemon's, another one (a wrapper, or the child before its exec), or
\* '' when the process is gone (for bitcoind: the process it forked)
StartComms(d) == IF d = "btc" THEN {"bitcoind", ""} ELSE {"lnd", "other", ""}

\* restartBtc: log('', True if p.returncode == 0 else FAILED)
restartBtcLogged(returncode) == IF returncode = 0 THEN "OK" ELSE "Failed"

\* restartLnd: log('', FAILED if getComm(pid) == '' else True)
restartLndLogged(comm) == IF comm = "" THEN "Failed" ELSE "OK"

\* restartBtc: sh(bitcoind -daemon); restartLnd: shBG(lnd).  The daemon that
\* comes up is the one 'current' resolves to; a failed start is logged as
\* 'Failed' and the update goes on
StartDaemon ==
    /\ pc = "start"
    /\ toolOps' = toolOps \cup {"launch"}
    /\ \E up \in BOOLEAN, r \in {"ok", "err"}, returncode \in StartCodes(family),
          comm \in StartComms(family) :
        /\ up => (CurrentDir(family).kind = "full" /\ CurrentDir(family).daemon /= Garbled)
        /\ up => (returncode = 0 /\ comm = DaemonBin(family))
        /\ returncode /= 0 => comm = ""
        /\ ~up => r = "err"
        /\ procs' = IF up THEN 1 ELSE 0
        /\ rpc' = r
        /\ runVer' = IF up THEN CurrentDir(family).daemon ELSE NoVersion
        /\ launch' = [daemon |-> DaemonBin(family), comm |-> comm, returncode |-> returncode,
                      logged |-> IF family = "btc" THEN restartBtcLogged(returncode)
                                                   ELSE restartLndLogged(comm)]
    /\ pc' = "report"
    /\ UNCHANGED <<treeVars, mainVars, exitVars, localVars, cacheVars,
                   link0, extracted, rechecked, synced, validated,
                   selfTest, gvaOps, unitVars>>

\* return (DAEMON_BIN, latestVer, installedVer, getRunning...()), and main()
\* goes on with lnd or with the table
Report ==
    /\ pc = "report"
    /\ LET o == getRunning(family, procs, rpc, runVer)
       IN  \/ /\ o.kind = "wait"
              /\ pc' = "report_sleep"
              /\ UNCHANGED <<mainVars, localVars, procVars>>
           \/ /\ o.kind = "value"
              /\ row' = <<DaemonBin(family), latestVer, installedVer, o.value>>
              /\ table' = Append(table, DaemonBin(family))
              /\ family' = IF family = "btc" /\ ~args.b THEN "lnd" ELSE family
              /\ pc' = IF family = "btc" /\ ~args.b THEN "begin" ELSE "print"
              /\ ClearLocals
              /\ ClearProcs
              /\ UNCHANGED <<runs, args>>
    /\ UNCHANGED <<treeVars, exitVars, cacheVars, histVars, unitVars>>

\* main(): the table is printed, the run is over
PrintTable ==
    /\ pc = "print"
    /\ pc' = "done"
    /\ UNCHANGED <<treeVars, mainVars, exitVars, localVars, cacheVars, procVars,
                   histVars, unitVars>>

Next ==
    \/ StartRun
    \/ BeginUpdate
    \/ QueryInstalled
    \/ ResolveLatest
    \/ Compare
    \/ VerifyCached
    \/ RetrieveKey
    \/ DownloadSig
    \/ DownloadData
    \/ VerifyAgain
    \/ ValidateArchive
    \/ LogSignature
    \/ InstallTar
    \/ RunTests
    \/ Recheck
    \/ OsSync
    \/ MakeLink
    \/ MakeLinkSymlink
    \/ CreateLinks
    \/ ObserveProcs
    \/ RestartCheck
    \/ Sleep
    \/ DaemonReady
    \/ DaemonExits
    \/ StopDaemon
    \/ StopWaitDone
    \/ StartDaemon
    \/ Report
    \/ PrintTable

Spec == Init /\ [][Next]_vars

(***************************************************************************)
(* SpecFetch: saveRemoteFile and verifyChecksum on every local file,       *)
(* remote file, network outcome and expected digest within the bounds.     *)
(***************************************************************************)
\* no run is going on and nothing is installed
QuietInit ==
    /\ MainInit
    /\ link = [d \in Families |-> NoLink]

\* the digests verifyChecksum is asked to check against
Checksums ==
    {[hex |-> c, upper |-> u] : c \in Contents, u \in BOOLEAN} \cup {NoDigest}

InitFetch ==
    /\ QuietInit
    /\ manifestSt = IdleManifest
    /\ indexSt = IdleIndex
    /\ \E local \in Contents \cup {NoFile}, remote \in Contents, resume \in BOOLEAN,
          net \in Nets, sum \in Checksums :
        fetchSt = [IdleFetch EXCEPT !.stage = "input", !.local = local, !.remote = remote,
                                    !.resume = resume, !.net = net, !.checksum = sum,
                                    !.file = local]

\* saveRemoteFile(url, localPath, resume)
FetchSave ==
    /\ fetchSt.stage = "input"
    /\ LET s == saveRemoteFile(fetchSt.local, fetchSt.remote, fetchSt.resume, fetchSt.net)
       IN  fetchSt' = [fetchSt EXCEPT !.stage = "saved", !.file = s.file, !.exit = s.exit]
    /\ UNCHANGED <<treeVars, mainVars, pc, exitVars, localVars, cacheVars, procVars,
                   histVars, manifestSt, indexSt>>

\* verifyChecksum(checksum, filePath, url)
FetchVerify ==
    /\ fetchSt.stage = "input"
    /\ LET v == verifyChecksum(fetchSt.checksum, fetchSt.local, fetchSt.remote, fetchSt.net)
       IN  fetchSt' = [fetchSt EXCEPT !.stage = "verified", !.file = v.file,
                                      !.exit = v.exit, !.ok = v.ok, !.raised = v.raised]
    /\ UNCHANGED <<treeVars, mainVars, pc, exitVars, localVars, cacheVars, procVars,
                   histVars, manifestSt, indexSt>>

NextFetch == FetchSave \/ FetchVerify

SpecFetch == InitFetch /\ [][NextFetch]_vars

(***************************************************************************)
(* SpecManifest: getExpectedChecksum on every manifest within the bounds.  *)
(***************************************************************************)
InitManifest ==
    /\ QuietInit
    /\ fetchSt = IdleFetch
    /\ indexSt = IdleIndex
    /\ \E lines \in SeqsUpTo(Lines, MaxLines) :
        manifestSt = [IdleManifest EXCEPT !.stage = "input", !.lines = lines]

\* checksum = getExpectedChecksum(sigData, fileName)
ManifestParse ==
    /\ manifestSt.stage = "input"
    /\ manifestSt' = [manifestSt EXCEPT
                         !.stage = "parsed",
                         !.result = getExpectedChecksum(manifestSt.lines, TarName)]
    /\ UNCHANGED <<treeVars, mainVars, pc, exitVars, localVars, cacheVars, procVars,
                   histVars, fetchSt, indexSt>>

NextManifest == ManifestParse

SpecManifest == InitManifest /\ [][NextManifest]_vars

(***************************************************************************)
(* SpecLatest: getLatestBtc on every release index over IndexVersions and   *)
(* every outcome of the probes of their manifests.                         *)
(***************************************************************************)
\* the versions a release index can list (the href pattern takes any run of
\* digits and dots: two or three segments, one or two digits)
IndexVersions == BtcVersions \cup {Ver(<<0, 10, 1>>, ""), Ver(<<22, 0>>, "")}

InitLatest ==
    /\ QuietInit
    /\ fetchSt = IdleFetch
    /\ manifestSt = IdleManifest
    /\ \E versions \in SUBSET IndexVersions : \E exists \in SUBSET versions :
        indexSt = [IdleIndex EXCEPT !.stage = "input", !.versions = versions,
                                    !.exists = exists]

\* latestVer = getLatestBtc()
LatestResolve ==
    /\ indexSt.stage = "input"
    /\ indexSt' = [indexSt EXCEPT
                      !.stage = "resolved",
                      !.result = getLatestBtc(indexSt.versions, indexSt.exists)]
    /\ UNCHANGED <<treeVars, mainVars, pc, exitVars, localVars, cacheVars, procVars,
                   histVars, fetchSt, manifestSt>>

NextLatest == LatestResolve

SpecLatest == InitLatest /\ [][NextLatest]_vars

(***************************************************************************)
(* SpecArchive: one getValidatedArchive and the log of its result, for     *)
(* each family and release, with its gpg calls and downloads recorded.     *)
(***************************************************************************)
\* updateBtc / updateLnd has found installedVer != latestVer
InitArchive ==
    /\ link = [d \in Families |-> NoLink]
    /\ dirs = [d \in Families |-> InstalledTree(d, NoLink)]
    /\ runs = 1
    /\ args = NoArgs
    /\ pc = "gva_verify"
    /\ family \in Families
    /\ latestRel \in Releases(family)
    /\ latestVer = VersionOf(family, latestRel)
    /\ table = <<>>
    /\ row = NoRow
    /\ exitReason = ""
    /\ exitCode = 0
    /\ installedVer = NoVersion
    /\ fileName = "unset"
    /\ checksum = NoDigest
    /\ running = NoVersion
    /\ key = FALSE
    /\ sigF = NoManifestFile
    /\ dataF = NoManifestFile
    /\ tarF = NoFile
    /\ procs = 0
    /\ rpc = "err"
    /\ runVer = NoVersion
    /\ link0 = NoLink
    /\ extracted = FALSE
    /\ rechecked = FALSE
    /\ synced = FALSE
    /\ validated = FALSE
    /\ toolOps = {}
    /\ selfTest = NoSelfTest
    /\ gvaOps = <<>>
    /\ launch = NoLaunch
    /\ fetchSt = IdleFetch
    /\ manifestSt = IdleManifest
    /\ indexSt = IdleIndex

NextArchive ==
    \/ VerifyCached
    \/ RetrieveKey
    \/ DownloadSig
    \/ DownloadData
    \/ VerifyAgain
    \/ ValidateArchive
    \/ LogSignature

SpecArchive == InitArchive /\ [][NextArchive]_vars

(***************************************************************************)
(* Properties.                                                             *)
(***************************************************************************)
\* the step changes the installation tree
TreeChanges == link' /= link \/ dirs' /= dirs

\* the statements of an update after log('Signature of ...') let it pass
InstallSteps == {"install", "tests", "recheck", "sync", "mklink", "symlink", "binlinks"}

\* C1: (Spec) when getValidatedArchive is back and the manifest signature does
\* not verify or the archive's digest is not the expected one, its result is
\* None; the update reaches installTar and the statements after it only with
\* a verified signature and a matching digest; and no step changes a
\* directory or the 'current' link in an update whose archive was not
\* validated (nothing is extracted, the link and the installed version stay).
C1_NoInstallUnlessValidated ==
    /\ [](pc = "log_sig" /\ (~verifyGPG(family, key, sigF, dataF) \/ ~checkSha256(tarF, checksum))
            => fileName = "None")
    /\ [](pc \in InstallSteps => (validated /\ fileName = "path"))
    /\ [][TreeChanges => validated]_vars

\* C1 witness: the signature verified, the archive was downloaded again and
\* its digest still does not match: getValidatedArchive has returned None
C1_Witness ==
    /\ pc = "log_sig"
    /\ fileName = "None"
    /\ verifyGPG(family, key, sigF, dataF)
    /\ tarF /= NoFile
    /\ ~checkSha256(tarF, checksum)

\* the release directory reports the version it was installed as
VersionVerified(d, rel, expected) ==
    /\ dirs[d][rel].kind = "full"
    /\ dirs[d][rel].daemon = expected
    /\ d = "btc" => dirs[d][rel].client = expected

\* C2: (Spec) the 'current' link is pointed at a release only after installTar
\* returned True and only when the binaries of that release's directory
\* report latestVer; and a run that ended on the version check has left the
\* link where it was.
C2_SwitchOnlyIfVersionConfirmed ==
    /\ [][\A d \in Families :
            (link'[d] /= link[d] /\ link'[d] /= NoLink)
                => (extracted /\ VersionVerified(d, link'[d], latestVer))]_vars
    /\ [](pc = "exit" /\ exitReason = "version mismatch" => link[family] = link0)

\* C3: (Spec) the 'current' link is absent or points to a fully extracted
\* directory that reports the version of its release, and no step changes
\* the directory the link points to.
C3_LinkAlwaysVerified ==
    /\ [](\A d \in Families :
            link[d] /= NoLink => VersionVerified(d, link[d], VersionOf(d, link[d])))
    /\ [][\A d \in Families :
            link[d] /= NoLink => dirs'[d][link[d]] = dirs[d][link[d]]]_vars

\* C4: (Spec) a 'current' link that exists exists after every step: repointing
\* it has no state in which the link is absent.
C4_LinkNeverAbsentOnceThere ==
    [][\A d \in Families : link[d] /= NoLink => link'[d] /= NoLink]_vars

\* C5: (Spec) os.sync() is called after the extraction and the version check,
\* and every step that changes the 'current' link is taken with the barrier
\* issued, in the same update, after the last extraction.
C5_SyncBeforeSwitch ==
    /\ [](synced => (extracted /\ rechecked))
    /\ [][link' /= link => synced]_vars

\* C5 witness: the link has just been pointed at the new release
C5_Witness ==
    /\ pc = "binlinks"
    /\ synced
    /\ link[family] = latestRel
    /\ link0 /= latestRel

\* C6: (SpecFetch) when the cached archive's digest is not the expected one
\* and the download succeeds, verifyChecksum leaves the remote content in the
\* file (a full overwrite), whatever the size of the cached file was.
C6_MismatchOverwrites ==
    (/\ fetchSt.stage = "verified"
     /\ fetchSt.local /= NoFile
     /\ fetchSt.checksum /= NoDigest
     /\ ~checkSha256(fetchSt.local, fetchSt.checksum)
     /\ fetchSt.net.head /\ fetchSt.net.get)
        => fetchSt.file = fetchSt.remote

\* C7: (SpecFetch) saveRemoteFile with resume and an existing local file, the
\* requests succeeding: equal sizes leave the file as it is; a smaller local
\* file gets the missing bytes appended; in every other case (a larger local
\* file, an unknown remote size) the file ends up with the remote content.
C7_ResumeCases ==
    (/\ fetchSt.stage = "saved"
     /\ fetchSt.resume
     /\ fetchSt.local /= NoFile
     /\ fetchSt.net.get)
        => LET cur  == Len(fetchSt.local)
               size == Len(fetchSt.remote)
           IN  /\ ~fetchSt.exit
               /\ (fetchSt.net.head /\ cur = size) => fetchSt.file = fetchSt.local
               /\ (fetchSt.net.head /\ cur < size)
                    => fetchSt.file = fetchSt.local \o SubSeq(fetchSt.remote, cur + 1, size)
               /\ (~fetchSt.net.head \/ cur > size) => fetchSt.file = fetchSt.remote

\* C8: (Spec) a network failure in saveRemoteFile does not end the process:
\* no run ends inside saveRemoteFile.
C8_FetchFailureNotFatal ==
    ~(pc = "exit" /\ exitReason = "saveRemoteFile")

\* the positions of a clearsigned manifest between its first BEGIN marker
\* and its first signature marker
Clearsigned(lines) ==
    /\ \E i \in 1..Len(lines) : lines[i] = BeginLine
    /\ \E i \in 1..Len(lines) : lines[i] = SigLine

Between(lines) ==
    {i \in 1..Len(lines) :
        /\ \E b \in 1..(i - 1) : lines[b] = BeginLine
        /\ \A e \in 1..i : lines[e] /= SigLine}

\* the positions between the markers of the entries that name the file
Naming(lines, name) ==
    {i \in Between(lines) :
        /\ lines[i].kind = "entry"
        /\ lines[i].hexlen = 64
        /\ lines[i].sep = " "
        /\ lines[i].name = name}

\* C9: (SpecManifest) for a clearsigned manifest, getExpectedChecksum returns
\* a digest only if an entry between the markers names the file and every
\* entry between the markers that names it carries that digest; entries that
\* name the file with differing digests give None.
C9_DigestOnlyIfAgreed ==
    (manifestSt.stage = "parsed" /\ Clearsigned(manifestSt.lines))
        => LET named == Naming(manifestSt.lines, TarName)
           IN  /\ manifestSt.result /= NoDigest
                    => /\ named /= {}
                       /\ \A i \in named : manifestSt.lines[i].digest = manifestSt.result
               /\ (\E i, j \in named :
                        manifestSt.lines[i].digest /= manifestSt.lines[j].digest)
                    => manifestSt.result = NoDigest

\* C9 witness: two entries between the markers name the file with different
\* digests, and the result is None
C9_Witness ==
    /\ manifestSt.stage = "parsed"
    /\ Clearsigned(manifestSt.lines)
    /\ \E i, j \in Naming(manifestSt.lines, TarName) :
            manifestSt.lines[i].digest /= manifestSt.lines[j].digest
    /\ manifestSt.result = NoDigest

\* the statements of stopDaemon and of the launch in restartBtc / restartLnd
RestartSteps == {"stop", "stop_wait", "start"}

\* the statements of an update from the restart decision to its return
ReconcileSteps == {"restart_check", "restart_sleep", "stop", "stop_wait", "start",
                   "report", "report_sleep"}

\* C10: (Spec) the update stops and starts the daemon exactly when restart was
\* requested and the running version it then queries differs from
\* installedVer; without the request it issues no stop command, no signal
\* and no launch, and none of its statements changes the process table.
C10_RestartIffRequestedAndStale ==
    /\ [](pc \in RestartSteps => (args.r /\ running /= installedVer))
    /\ [](toolOps /= {} => args.r)
    /\ [][(pc = "restart_check" /\ pc' \in {"stop", "report"})
            => (pc' = "stop"
                    <=> (args.r /\ getRunning(family, procs, rpc, runVer).value /= installedVer))]_vars
    /\ [][(~args.r /\ pc \in ReconcileSteps /\ pc' \in ReconcileSteps /\ pc' /= pc)
            => procs' = procs]_vars

\* C10 witness: a restart was requested, the running version was stale, and
\* the daemon has been stopped and launched
C10_Witness ==
    /\ pc = "report"
    /\ args.r
    /\ toolOps = {"stop", "launch"}

\* C11: (Spec) stopDaemon issues the client's stop command first; it signals
\* the processes of the daemon's name exactly when that command fails (and
\* there are processes to signal), never before the command; it returns,
\* and the new daemon is launched, only when no process of that name is left.
C11_StopBeforeStart ==
    /\ [][(pc = "stop" /\ pc' /= pc)
            => /\ pc' = "stop_wait"
               /\ "stop" \in toolOps'
               /\ ("kill" \in toolOps') <=> (rpc /= "ok" /\ procs > 0)]_vars
    /\ []("kill" \in toolOps => "stop" \in toolOps)
    /\ [][("kill" \in toolOps' /\ "kill" \notin toolOps) => pc = "stop"]_vars
    /\ [](pc = "start" => procs = 0)
    /\ [][("launch" \in toolOps' /\ "launch" \notin toolOps)
            => (procs = 0 /\ "stop" \in toolOps)]_vars

\* C11 witness: the stop command failed, the processes were signalled, they
\* are gone and the daemon is about to be launched
C11_Witness ==
    /\ pc = "start"
    /\ toolOps = {"stop", "kill"}
    /\ procs = 0

\* the statements that call getRunningBtc / getRunningLnd
QuerySteps == {"restart_check", "report"}

\* C12: (Spec) with no process of the daemon's name, the running-version
\* query gives None at once: the step that makes it neither sleeps nor ends
\* the run, and None is what the restart decision and the returned row get.
C12_NoProcessGivesNone ==
    /\ []((pc \in QuerySteps /\ procs = 0)
            => getRunning(family, procs, rpc, runVer) = Outcome("value", NoVersion))
    /\ [][(pc \in QuerySteps /\ procs = 0 /\ pc' /= pc)
            => pc' \notin {"restart_sleep", "report_sleep", "exit"}]_vars
    /\ [][(pc = "restart_check" /\ args.r /\ procs = 0 /\ pc' /= pc)
            => running' = NoVersion]_vars
    /\ [][(pc = "report" /\ procs = 0 /\ pc' /= pc) => row'[4] = NoVersion]_vars

\* C12 witness: bitcoind had no process and its row says None
C12_Witness ==
    /\ pc = "print"
    /\ args.b
    /\ row[1] = "bitcoind"
    /\ row[4] = NoVersion
    /\ toolOps = {}

\* C13: (Spec) for lnd, when lncli's query fails while a process named lnd
\* exists, the running state is 'locked' (not None, and the run does not end
\* on a parse error); and 'locked' is reported in no other situation, for
\* neither daemon.
C13_LockedIffErrorWithProcess ==
    /\ []((family = "lnd" /\ pc \in QuerySteps /\ rpc = "err" /\ procs > 0)
            => getRunning(family, procs, rpc, runVer) = Outcome("value", Locked))
    /\ [][(family = "lnd" /\ pc = "report" /\ pc' /= pc)
            => /\ pc' /= "exit"
               /\ (row'[4] = Locked) <=> (rpc = "err" /\ procs > 0)]_vars
    /\ [][(family = "lnd" /\ pc = "restart_check" /\ args.r /\ pc' /= pc)
            => /\ pc' /= "exit"
               /\ (running' = Locked) <=> (rpc = "err" /\ procs > 0)]_vars
    /\ [](row[4] = Locked => row[1] = "lnd")
    /\ [](running = Locked => family = "lnd")

\* C13 witness: lnd's row reports 'locked'
C13_Witness ==
    /\ pc = "print"
    /\ row[1] = "lnd"
    /\ row[4] = Locked

\* C14: (Spec) a hard error ends the run: after it no statement of the run is
\* executed (the only step from there is the start of another run); a run
\* that failed in bitcoind has appended no row, never turns to lnd and never
\* reaches the printing of the table.
C14_HardErrorEndsRun ==
    /\ [][pc = "exit" => runs' /= runs]_vars
    /\ [](pc = "exit" => Len(table) = (IF family = "lnd" /\ ~args.l THEN 1 ELSE 0))
    /\ [](pc \in {"print", "done"} => exitReason = "")
    /\ [][(family = "btc" /\ family' = "lnd" /\ runs' = runs)
            => (pc = "report" /\ exitReason = "")]_vars

\* C14 witness: both daemons were asked for and the run ended in bitcoind's
\* update, on the version check of the extracted binaries
C14_Witness ==
    /\ pc = "exit"
    /\ ~args.b /\ ~args.l
    /\ family = "btc"
    /\ exitReason = "version mismatch"
    /\ table = <<>>

\* version a ranks above version b, segment by segment as numbers (a list
\* that continues a shorter equal one ranks above it)
RanksAbove(a, b) ==
    \E i \in 1..Len(a) :
        /\ \A j \in 1..(i - 1) : j <= Len(b) /\ a[j] = b[j]
        /\ (i > Len(b) \/ a[i] > b[i])

\* C15: (SpecLatest) getLatestBtc returns a listed version whose manifest
\* answered the probe, no listed version ranking above it has a reachable
\* manifest, and None is returned only when no listed version has one; with
\* 0.9.0 and 0.21.0 both reachable the result is not 0.9.0.
C15_HighestReachable ==
    indexSt.stage = "resolved"
        => LET r == indexSt.result
           IN  /\ (r = NoVersion) <=> (indexSt.versions \cap indexSt.exists = {})
               /\ r /= NoVersion
                    => /\ r \in indexSt.versions
                       /\ r \in indexSt.exists
                       /\ \A w \in indexSt.versions :
                            RanksAbove(w.num, r.num) => w \notin indexSt.exists
               /\ BtcVersions \subseteq indexSt.exists => r /= Ver(<<0, 9, 0>>, "")

\* C15 witness: 22.0 is listed but has no manifest, 0.9.0 and 0.21.0 have
\* one, and 0.21.0 is returned
C15_Witness ==
    /\ indexSt.stage = "resolved"
    /\ Ver(<<22, 0>>, "") \in indexSt.versions
    /\ indexSt.exists = BtcVersions
    /\ indexSt.result = Ver(<<0, 21, 0>>, "")

\* C16: (Spec) test_bitcoin is run exactly when it is there and -s was not
\* given; when it ends with a status other than 0 the run ends at once with
\* that status, the 'current' link where it was and no daemon control
\* issued; a run that ended on the self-test ended for that reason only.
C16_SelfTestFailureIsFatal ==
    /\ [](selfTest.ran => (~args.s /\ selfTest.present))
    /\ [][(pc = "tests" /\ pc' /= pc)
            => (selfTest'.ran <=> (~args.s /\ selfTest'.present))]_vars
    /\ []((selfTest.ran /\ selfTest.returncode /= 0)
            => /\ pc = "exit"
               /\ exitReason = "test_bitcoin"
               /\ exitCode = selfTest.returncode
               /\ link[family] = link0
               /\ toolOps = {})
    /\ []((pc = "exit" /\ exitReason = "test_bitcoin")
            => (selfTest.ran /\ selfTest.returncode /= 0))

\* C16 witness: test_bitcoin ended with status 2 and so did the run, in an
\* upgrade of an installed bitcoind
C16_Witness ==
    /\ pc = "exit"
    /\ exitReason = "test_bitcoin"
    /\ selfTest.returncode = 2
    /\ exitCode = 2
    /\ link0 /= NoLink
    /\ link["btc"] = link0

\* C17: (Spec) a start is logged as a success only when the process found
\* after the launch carries the daemon's command name; a process that is
\* gone or has another name is logged as a failed start.
C17_StartConfirmsName ==
    /\ launch.logged = "OK" => launch.comm = launch.daemon
    /\ (launch.logged /= "" /\ launch.comm /= launch.daemon) => launch.logged = "Failed"

\* the positions of gvaOps at which gpg --verify was run
Verifies == {i \in 1..Len(gvaOps) : gvaOps[i] \in {"verify-ok", "verify-bad"}}

\* the key imports and the downloads of getValidatedArchive
RetrySteps == {"noKey", "haveKey", "fetch-keys", "recv-keys", "save-sig", "save-data"}

\* C18: (SpecArchive) in one getValidatedArchive the manifest's signature is
\* verified at most twice, first of all on the cached files; key imports and
\* downloads are made only after that first verification failed; the key
\* server is asked only after --fetch-keys left the key absent, and the key
\* URL only when the key is absent; the second verification follows the
\* downloads, which leave the server's files in the cache, and is made
\* exactly once when the first one failed.
C18_VerifyAtMostTwice ==
    /\ [](/\ Cardinality(Verifies) <= 2
          /\ gvaOps /= <<>> => 1 \in Verifies
          /\ \A i \in 1..Len(gvaOps) :
                /\ gvaOps[i] \in RetrySteps => (i > 1 /\ gvaOps[1] = "verify-bad")
                /\ gvaOps[i] = "fetch-keys" => gvaOps[i - 1] = "noKey"
                /\ gvaOps[i] = "recv-keys"
                    => (i > 2 /\ gvaOps[i - 1] = "noKey" /\ gvaOps[i - 2] = "fetch-keys")
                /\ (i \in Verifies /\ i > 1)
                    => /\ gvaOps[i - 1] = (IF family = "lnd" THEN "save-data" ELSE "save-sig")
                       /\ \E j \in 1..(i - 1) : gvaOps[j] = "save-sig"
          /\ (gvaOps /= <<>> /\ gvaOps[1] = "verify-bad" /\ pc \in {"gva_checksum", "log_sig"})
                => Cardinality(Verifies) = 2)
    /\ [][(pc = "gva_dl_sig" /\ pc' \notin {pc, "exit"}) => sigF' \in SigFiles]_vars
    /\ [][(pc = "gva_dl_data" /\ pc' \notin {pc, "exit"}) => dataF' \in DataFiles]_vars

\* C18 witness: lnd's cached manifest did not verify, the key came from the
\* key server, both files were downloaded and the second verification passed
C18_Witness ==
    /\ pc = "gva_checksum"
    /\ family = "lnd"
    /\ gvaOps = <<"verify-bad", "noKey", "fetch-keys", "noKey", "recv-keys", "haveKey",
                  "save-sig", "save-data", "verify-ok">>

\* C19: (Spec) getValidatedArchive starts with nothing verified and nothing
\* read (the result, the digest and the files are those of no earlier
\* invocation), and when it returns a path the manifest now in the cache
\* passes gpg --verify and the archive's SHA-256 equals the digest
\* getExpectedChecksum extracts from that manifest.
C19_PathOnlyIfVerifiedNow ==
    /\ pc = "gva_verify"
        => (~validated /\ fileName = "unset" /\ checksum = NoDigest /\ ~key
            /\ sigF = NoManifestFile /\ dataF = NoManifestFile /\ tarF = NoFile)
    /\ (pc = "log_sig" /\ fileName = "path")
        => /\ verifyGPG(family, key, sigF, dataF)
           /\ checksum /= NoDigest
           /\ checksum = getExpectedChecksum(SigData(family, sigF, dataF).lines, TarName)
           /\ checkSha256(tarF, checksum)

\* C19 witness: the second getValidatedArchive of a run (lnd's, after
\* bitcoind's) returns a path, in an upgrade of an installed lnd
C19_Witness ==
    /\ pc = "log_sig"
    /\ fileName = "path"
    /\ family = "lnd"
    /\ table = <<"bitcoind">>
    /\ link[family] /= NoLink

\* C20: (Spec) getValidatedArchive ends with a path or None: no run ends on
\* the exception checkSha256 raises for a manifest without a trusted digest.
C20_NoDigestGivesNone ==
    ~(pc = "exit" /\ exitReason = "AttributeError")

====
